---- MODULE Spec2Model ----
(***************************************************************************)
(* Model of the prompt management backend (backend/main.py).               *)
(*                                                                         *)
(* The store is the "prompts" table: a set of rows.  The handlers are      *)
(* `async def` functions without an await, so within one server process    *)
(* each handler runs to completion on the event loop: Spec has one atomic  *)
(* action per handler.  SpecRace models several server processes sharing   *)
(* the database named by DATABASE_URL, where the SELECT and the COMMIT of  *)
(* create_prompt of different processes interleave.                        *)
(*                                                                         *)
(* Nullable values (every column but the primary key is nullable, and the  *)
(* PromptUpdate fields are Optional) are encoded as sequences: <<>> is     *)
(* NULL/None and <<v>> is the value v.                                     *)
(*                                                                         *)
(* Timestamps are a logical clock: `clock` is the latest value returned by *)
(* datetime.utcnow().  The first read of an operation is later than every  *)
(* earlier read (a database round trip lies between them); a further read  *)
(* within the same flush returns the same instant or a later one.          *)
(***************************************************************************)
EXTENDS Integers, Sequences, FiniteSets, TLC

VARIABLES
  store,    \* the committed rows of the prompts table
  clock,    \* the latest instant datetime.utcnow() returned
  phase,    \* "startup", "seeding" or "serving"
  pending,  \* the rows written in the open seeding transaction
  req,      \* the request of the handler that ran last
  loaded,   \* the row the last delete_prompt or activate_prompt call loaded
  resp,     \* what the service emitted last: the response of that handler,
            \* or the line init_default_prompts printed
  sess      \* SpecRace: the create_prompt call of each server process

vars == <<store, clock, phase, pending, req, loaded, resp, sess>>

\* ------------------------------------------------------------------ bounds
MaxClock == 3
NumWorkers == 2

Workers == 1..NumWorkers

\* Categories, titles and bodies that requests carry.
ReqCategories == {"roadmap", "x"}
ReqTitles == {"T2"}
ReqPrompts == {"P2"}

\* ------------------------------------------------------------ nullable data
Null == <<>>
Some(v) == <<v>>

\* ------------------------------------------------------------ default data
default_prompts ==
  << [category |-> "roadmap",         title |-> "Product Roadmap Analysis",
      prompt |-> "Analyze the repository data and provide strategic roadmap recommendations."],
     [category |-> "vulnerabilities", title |-> "Security & Vulnerability Assessment",
      prompt |-> "Analyze the repository for potential security issues and vulnerabilities."],
     [category |-> "teamAssignments", title |-> "Team Assignment Recommendations",
      prompt |-> "Based on the repository structure and commit patterns, recommend team assignments."],
     [category |-> "newFeatures",     title |-> "New Feature Suggestions",
      prompt |-> "Analyze the current functionality and suggest valuable new features."],
     [category |-> "technicalDebt",   title |-> "Technical Debt Analysis",
      prompt |-> "Identify technical debt and code quality issues."],
     [category |-> "performance",     title |-> "Performance Optimization",
      prompt |-> "Analyze potential performance issues and optimization opportunities."] >>

\* ------------------------------------------------------------------ storage
Range(s) == {s[i] : i \in 1..Len(s)}

\* The rows a session sees: the committed table and its own open transaction.
Visible(st, tx) == st \cup Range(tx)

\* INTEGER PRIMARY KEY: one more than the largest id in the table.
NextId(rows) ==
  IF rows = {} THEN 1
  ELSE (CHOOSE m \in {r.id : r \in rows} : \A r \in rows : r.id <= m) + 1

\* Mutant: the lookup by category skips soft-deleted rows.
FilterActiveByCategory(rows, category) ==
  {r \in rows : r.category = category /\ r.is_active = Some(TRUE)}

\* db.query(Prompt).filter(Prompt.category == category)
FilterByCategory(rows, category) == {r \in rows : r.category = category}

\* .first(): the matching row with the lowest id, or None (Null)
First(rows) ==
  IF rows = {} THEN Null
  ELSE Some(CHOOSE r \in rows : \A q \in rows : r.id <= q.id)

\* Mutant: the existence check looks among the active rows only.
LookupActive(rows, category) ==
  First({r \in rows : r.category = category /\ r.is_active = Some(TRUE)})

\* db.query(Prompt).filter(Prompt.category == category).first()
Lookup(rows, category) == First(FilterByCategory(rows, category))

\* Mutant: seeding is skipped only when more than one row exists.
HasSeveralPrompts(rows) == Cardinality(rows) > 1

\* db.query(Prompt).count() > 0
HasPrompts(rows) == Cardinality(rows) > 0

\* Mutant: every INSERT is committed on its own, a rollback undoes nothing.
RollbackKeepsWritten(rows, tx) == rows \cup Range(tx)

\* COMMIT and ROLLBACK of a transaction that wrote the rows tx.
Commit(rows, tx) == rows \cup Range(tx)
Rollback(rows, tx) == rows

\* unique=True on category, primary_key=True on id
UniqueViolation(rows, row) ==
  \E r \in rows : r.category = row.category \/ r.id = row.id

\* The instants a second datetime.utcnow() of the same flush can return.
LaterReads(t) == {t, t + 1}

\* Prompt(**data) at INSERT: the column defaults fill what data leaves out;
\* created_at and updated_at each call datetime.utcnow() on their own.
NewRow(rows, data, t1, t2) ==
  [id         |-> NextId(rows),
   category   |-> data.category,
   title      |-> Some(data.title),
   prompt     |-> Some(data.prompt),
   is_active  |-> IF "is_active" \in DOMAIN data THEN Some(data.is_active) ELSE Some(TRUE),
   created_at |-> t1,
   updated_at |-> t2]


\* ----------------------------------------------------------- request models
\* PromptCreate: category, title and prompt are required strings; is_active
\* is a bool that defaults to True (a null is rejected before the handler).
CreateBodies ==
  { [category |-> c, title |-> t, prompt |-> p] :
      c \in ReqCategories, t \in ReqTitles, p \in ReqPrompts }
  \cup
  { [category |-> c, title |-> t, prompt |-> p, is_active |-> a] :
      c \in ReqCategories, t \in ReqTitles, p \in ReqPrompts, a \in BOOLEAN }

\* prompt.dict(): every field of PromptCreate, defaults filled in.
PromptCreate(json) ==
  [category  |-> json.category,
   title     |-> json.title,
   prompt    |-> json.prompt,
   is_active |-> IF "is_active" \in DOMAIN json THEN json.is_active ELSE TRUE]

\* PromptUpdate: three Optional fields, each absent, null or a value.
UpdateFields == {"title", "prompt", "is_active"}
TitleValues == {Null} \cup {Some(t) : t \in ReqTitles}
PromptValues == {Null} \cup {Some(p) : p \in ReqPrompts}
ActiveValues == {Null} \cup {Some(a) : a \in BOOLEAN}

UpdateBody(fs, t, p, a) ==
  [f \in fs |-> IF f = "title" THEN t ELSE IF f = "prompt" THEN p ELSE a]

\* The request bodies tried: every set of fields with values, and each field
\* alone as an explicit null.
UpdateBodies ==
  { UpdateBody(fs, t, p, a) :
      fs \in SUBSET UpdateFields, t \in TitleValues \ {Null},
      p \in PromptValues \ {Null}, a \in ActiveValues \ {Null} }
  \cup
  { UpdateBody({f}, Null, Null, Null) : f \in UpdateFields }

\* Mutant: prompt_update.dict(), the unset fields included as None.
UpdateDataAll(json) ==
  [f \in UpdateFields |-> IF f \in DOMAIN json THEN json[f] ELSE Null]

\* prompt_update.dict(exclude_unset=True): the fields the request supplied,
\* a field supplied as null included.
UpdateData(json) ==
  [f \in (DOMAIN json) \cap UpdateFields |-> json[f]]

\* for field, value in update_data.items(): setattr(prompt, field, value)
\* prompt.updated_at = datetime.utcnow()
ApplyUpdate(row, update_data, now) ==
  [f \in DOMAIN row |->
     IF f = "updated_at" THEN now
     ELSE IF f \in DOMAIN update_data THEN update_data[f]
     ELSE row[f]]

\* prompt.is_active = False; prompt.updated_at = datetime.utcnow()
Deactivated(row, now) == [row EXCEPT !.is_active = Some(FALSE), !.updated_at = now]

\* Mutant: activate refreshes updated_at and leaves the flag alone.
ActivatedFlagKept(row, now) == [row EXCEPT !.updated_at = now]

\* prompt.is_active = True; prompt.updated_at = datetime.utcnow()
Activated(row, now) == [row EXCEPT !.is_active = Some(TRUE), !.updated_at = now]

\* UPDATE of one row by primary key.
Replace(rows, old, new) == (rows \ {old}) \cup {new}

\* ---------------------------------------------------------- response models
\* PromptResponse (from_attributes): every field is required and typed, so a
\* row holding a NULL in title, prompt or is_active fails response validation.
ValidResponse(row) ==
  /\ row.title # Null
  /\ row.prompt # Null
  /\ row.is_active # Null

\* Status of a handler returning one row under response_model=PromptResponse.
RowStatus(row) == IF ValidResponse(row) THEN 200 ELSE 500

\* Prompt.is_active == True: false for a NULL as for False.
IsActive(row) == row.is_active = Some(TRUE)

\* get_prompts: {category: {title, prompt}} of the active rows.
ActivePrompts(rows) ==
  LET act == {r \in rows : IsActive(r)}
  IN  [c \in {r.category : r \in act} |->
         LET same == {q \in act : q.category = c}
             r == CHOOSE q \in same : \A o \in same : o.id <= q.id
         IN  [title |-> r.title, prompt |-> r.prompt]]

\* get_all_prompts under response_model=List[PromptResponse]
AllPrompts(rows) ==
  IF \A r \in rows : ValidResponse(r)
  THEN [status |-> 200, body |-> rows]
  ELSE [status |-> 500, body |-> "Internal Server Error"]

Request(op, category, json) == [op |-> op, category |-> category, json |-> json]
Response(status, body) == [status |-> status, body |-> body]
NoJson == <<>>

NoRequest == Request("none", "", NoJson)
NoResponse == Response(0, "")
Idle == [pc |-> "idle", prompt |-> NoJson, passed |-> FALSE, status |-> 0]

\* What init_default_prompts prints.
Printed(line) == [status |-> 0, body |-> line]
SeedOk == "Default prompts initialized successfully!"
SeedError == "Error initializing default prompts"

\* --------------------------------------------------------------------- Init
Init ==
  /\ store = {}
  /\ clock = 0
  /\ phase = "startup"
  /\ pending = <<>>
  /\ req = NoRequest
  /\ loaded = Null
  /\ resp = NoResponse
  /\ sess = [w \in Workers |-> Idle]

\* ------------------------------------------------------------------ seeding
\* startup_event -> init_default_prompts: count() > 0 returns at once.
StartupCheck ==
  /\ phase = "startup"
  /\ phase' = IF HasPrompts(store) THEN "serving" ELSE "seeding"
  /\ UNCHANGED <<store, clock, pending, req, loaded, resp, sess>>

\* One default row written in the open transaction (db.add, flushed by
\* db.commit before the COMMIT itself).
SeedInsert ==
  /\ phase = "seeding"
  /\ Len(pending) < Len(default_prompts)
  /\ \E t1 \in (IF pending = <<>> THEN {clock + 1} ELSE LaterReads(clock)) :
     \E t2 \in LaterReads(t1) :
       /\ t2 <= MaxClock
       /\ LET row == NewRow(Visible(store, pending),
                            default_prompts[Len(pending) + 1], t1, t2)
          IN  /\ ~UniqueViolation(Visible(store, pending), row)
              /\ pending' = Append(pending, row)
       /\ clock' = t2
  /\ UNCHANGED <<store, phase, req, loaded, resp, sess>>

\* db.commit(): the six rows become part of the table.
SeedCommit ==
  /\ phase = "seeding"
  /\ Len(pending) = Len(default_prompts)
  /\ store' = Commit(store, pending)
  /\ pending' = <<>>
  /\ resp' = Printed(SeedOk)
  /\ phase' = "serving"
  /\ UNCHANGED <<clock, req, loaded, sess>>

\* except Exception: print, db.rollback(); finally db.close().  The error can
\* come from any INSERT of the flush or from the COMMIT.
SeedFail ==
  /\ phase = "seeding"
  /\ store' = Rollback(store, pending)
  /\ pending' = <<>>
  /\ resp' = Printed(SeedError)
  /\ phase' = "serving"
  /\ UNCHANGED <<clock, req, loaded, sess>>

\* The process is stopped and started again; the table persists.
Restart ==
  /\ phase = "serving"
  /\ phase' = "startup"
  /\ req' = NoRequest
  /\ loaded' = Null
  /\ resp' = NoResponse
  /\ UNCHANGED <<store, clock, pending, sess>>


\* ----------------------------------------------------------------- handlers
\* GET /prompts
GetPrompts ==
  /\ phase = "serving"
  /\ req' = Request("get_prompts", "", NoJson)
  /\ loaded' = Null
  /\ resp' = Response(200, ActivePrompts(store))
  /\ UNCHANGED <<store, clock, phase, pending, sess>>

\* GET /prompts/all
GetAllPrompts ==
  /\ phase = "serving"
  /\ req' = Request("get_all_prompts", "", NoJson)
  /\ loaded' = Null
  /\ resp' = AllPrompts(store)
  /\ UNCHANGED <<store, clock, phase, pending, sess>>

\* GET /prompts/{category}
GetPromptByCategory(category) ==
  /\ phase = "serving"
  /\ req' = Request("get_prompt_by_category", category, NoJson)
  /\ loaded' = Null
  /\ LET prompt == Lookup(store, category)
     IN  resp' = IF prompt = Null THEN Response(404, "Prompt not found")
                 ELSE IF ValidResponse(prompt[1]) THEN Response(200, prompt[1])
                 ELSE Response(500, "Internal Server Error")
  /\ UNCHANGED <<store, clock, phase, pending, sess>>

\* POST /prompts
CreatePrompt(json) ==
  /\ phase = "serving"
  /\ req' = Request("create_prompt", json.category, json)
  /\ loaded' = Null
  /\ IF Lookup(store, PromptCreate(json).category) # Null
     THEN /\ resp' = Response(400, "Category already exists")
          /\ UNCHANGED <<store, clock>>
     ELSE \E t1 \in {clock + 1} : \E t2 \in LaterReads(t1) :
            /\ t2 <= MaxClock
            /\ clock' = t2
            /\ LET db_prompt == NewRow(store, PromptCreate(json), t1, t2)
               IN  IF UniqueViolation(store, db_prompt)
                   THEN /\ resp' = Response(500, "Internal Server Error")
                        /\ store' = store
                   ELSE /\ store' = store \cup {db_prompt}
                        /\ resp' = Response(RowStatus(db_prompt),
                                     IF ValidResponse(db_prompt) THEN db_prompt
                                     ELSE "Internal Server Error")
  /\ UNCHANGED <<phase, pending, sess>>

\* PUT /prompts/{category}
UpdatePrompt(category, json) ==
  /\ phase = "serving"
  /\ req' = Request("update_prompt", category, json)
  /\ loaded' = Null
  /\ LET found == Lookup(store, category)
     IN  IF found = Null
         THEN /\ resp' = Response(404, "Prompt not found")
              /\ UNCHANGED <<store, clock>>
         ELSE /\ clock + 1 <= MaxClock
              /\ clock' = clock + 1
              /\ LET prompt == ApplyUpdate(found[1], UpdateData(json), clock')
                 IN  /\ store' = Replace(store, found[1], prompt)
                     /\ resp' = Response(RowStatus(prompt),
                                  IF ValidResponse(prompt) THEN prompt
                                  ELSE "Internal Server Error")
  /\ UNCHANGED <<phase, pending, sess>>

\* DELETE /prompts/{category}
DeletePrompt(category) ==
  /\ phase = "serving"
  /\ req' = Request("delete_prompt", category, NoJson)
  /\ loaded' = Lookup(store, category)
  /\ IF loaded' = Null
     THEN /\ resp' = Response(404, "Prompt not found")
          /\ UNCHANGED <<store, clock>>
     ELSE /\ clock + 1 <= MaxClock
          /\ clock' = clock + 1
          /\ store' = Replace(store, loaded'[1], Deactivated(loaded'[1], clock'))
          /\ resp' = Response(200, "Prompt deactivated successfully")
  /\ UNCHANGED <<phase, pending, sess>>

\* POST /prompts/{category}/activate
ActivatePrompt(category) ==
  /\ phase = "serving"
  /\ req' = Request("activate_prompt", category, NoJson)
  /\ loaded' = Lookup(store, category)
  /\ IF loaded' = Null
     THEN /\ resp' = Response(404, "Prompt not found")
          /\ UNCHANGED <<store, clock>>
     ELSE /\ clock + 1 <= MaxClock
          /\ clock' = clock + 1
          /\ store' = Replace(store, loaded'[1], Activated(loaded'[1], clock'))
          /\ resp' = Response(200, "Prompt activated successfully")
  /\ UNCHANGED <<phase, pending, sess>>

Next ==
  \/ StartupCheck
  \/ SeedInsert
  \/ SeedCommit
  \/ SeedFail
  \/ Restart
  \/ GetPrompts
  \/ GetAllPrompts
  \/ \E category \in ReqCategories : GetPromptByCategory(category)
  \/ \E json \in CreateBodies : CreatePrompt(json)
  \/ \E category \in ReqCategories, json \in UpdateBodies :
       UpdatePrompt(category, json)
  \/ \E category \in ReqCategories : DeletePrompt(category)
  \/ \E category \in ReqCategories : ActivatePrompt(category)

Spec == Init /\ [][Next]_vars


\* ------------------------------------------- create_prompt, several processes
\* The SELECT of create_prompt in server process w.
CreateCheck(w, json) ==
  /\ phase = "serving"
  /\ sess[w].pc # "checked"
  /\ LET existing == Lookup(store, PromptCreate(json).category)
     IN  sess' = [sess EXCEPT ![w] =
                    IF existing # Null
                    THEN [pc |-> "done", prompt |-> json, passed |-> FALSE, status |-> 400]
                    ELSE [pc |-> "checked", prompt |-> json, passed |-> TRUE, status |-> 0]]
  /\ UNCHANGED <<store, clock, phase, pending, req, loaded, resp>>

\* db.add, db.commit, db.refresh and the response of create_prompt in server
\* process w.  No except clause surrounds the commit: an IntegrityError of
\* the INSERT leaves the handler as an unhandled exception (HTTP 500).
CreateCommit(w) ==
  /\ phase = "serving"
  /\ sess[w].pc = "checked"
  /\ \E t1 \in {clock + 1} : \E t2 \in LaterReads(t1) :
       /\ t2 <= MaxClock
       /\ clock' = t2
       /\ LET db_prompt == NewRow(store, PromptCreate(sess[w].prompt), t1, t2)
          IN  IF UniqueViolation(store, db_prompt)
              THEN /\ store' = store
                   /\ sess' = [sess EXCEPT ![w].pc = "done", ![w].status = 500]
              ELSE /\ store' = store \cup {db_prompt}
                   /\ sess' = [sess EXCEPT ![w].pc = "done",
                                           ![w].status = RowStatus(db_prompt)]
  /\ UNCHANGED <<phase, pending, req, loaded, resp>>

NextRace ==
  \/ StartupCheck
  \/ SeedInsert
  \/ SeedCommit
  \/ SeedFail
  \/ \E w \in Workers, json \in CreateBodies : CreateCheck(w, json)
  \/ \E w \in Workers : CreateCommit(w)

SpecRace == Init /\ [][NextRace]_vars


\* ------------------------------------------------------------------- claims
HasCategory(rows, category) == \E r \in rows : r.category = category

UniqueCategories == \A r, q \in store : r.category = q.category => r = q

CreateOnHeldCategory ==
  (req'.op = "create_prompt" /\ HasCategory(store, req'.category))
    => (resp'.status = 400 /\ store' = store)

\* C1: no two stored rows ever share a category, and a create call whose
\* category a stored row already holds, active or not, is answered 400 and
\* leaves the table as it was.
C1_CreateNeverDuplicates ==
  [](UniqueCategories) /\ [][CreateOnHeldCategory]_vars

\* C1 witness: a create call was answered 400 because of an inactive row.
C1_Witness ==
  /\ req.op = "create_prompt"
  /\ resp.status = 400
  /\ \E r \in store : r.category = req.category /\ r.is_active = Some(FALSE)

\* C2: GET /prompts has a key for a category exactly when a stored row of
\* that category has is_active = true, and GET /prompts/all returns every
\* stored row.  (Stated as the claim has it; violated by the code.)
C2_ListingsAsClaimed ==
  /\ req.op = "get_prompts" =>
       /\ resp.status = 200
       /\ DOMAIN resp.body = {r.category : r \in {q \in store : q.is_active = Some(TRUE)}}
  /\ req.op = "get_all_prompts" =>
       /\ resp.status = 200
       /\ store \subseteq resp.body

UpdateFrameStep ==
  (req'.op = "update_prompt" /\ resp'.status # 404) =>
    \E old \in store : \E new \in store' :
      /\ old.category = req'.category
      /\ new.category = old.category
      /\ new.id = old.id
      /\ new.created_at = old.created_at
      /\ \A f \in UpdateFields : f \notin DOMAIN req'.json => new[f] = old[f]
      /\ store' \ {new} = store \ {old}

\* C3: an update of an existing row changes, among title, prompt and
\* is_active, only the fields the request supplies; id, category and
\* created_at keep their values and every other row is untouched.
C3_UpdateFrame == [][UpdateFrameStep]_vars

\* C3 witness: an update supplying only the title went through and the
\* row's title is the supplied one.
C3_Witness ==
  /\ req.op = "update_prompt"
  /\ resp.status = 200
  /\ DOMAIN req.json = {"title"}
  /\ \E r \in store : r.category = req.category /\ r.title = req.json.title
  /\ Cardinality(store) > 1

DeactivateActivateStep ==
  ( /\ req.op = "delete_prompt"
    /\ loaded # Null
    /\ req'.op = "activate_prompt"
    /\ req'.category = req.category )
  => ( loaded[1].is_active = Some(TRUE) =>
         \E r \in store' :
           /\ r.id = loaded[1].id
           /\ r.category = loaded[1].category
           /\ r.title = loaded[1].title
           /\ r.prompt = loaded[1].prompt
           /\ r.is_active = loaded[1].is_active
           /\ r.created_at = loaded[1].created_at
           /\ r.updated_at > loaded[1].updated_at )

\* C4: deactivating an active row and then activating it gives back its id,
\* category, title, prompt, is_active and created_at, with a strictly
\* greater updated_at.
C4_DeactivateActivate == [][DeactivateActivateStep]_vars

\* C4 witness: activate has just acted on a row that the change before it
\* had left inactive, and the row is active again with a later updated_at.
C4_Witness ==
  /\ req.op = "activate_prompt"
  /\ resp.status = 200
  /\ loaded # Null
  /\ loaded[1].is_active = Some(FALSE)
  /\ loaded[1].updated_at > loaded[1].created_at
  /\ \E r \in store :
       /\ r.id = loaded[1].id
       /\ r.is_active = Some(TRUE)
       /\ r.updated_at > loaded[1].updated_at

DocumentedCategories ==
  {"roadmap", "vulnerabilities", "teamAssignments", "newFeatures",
   "technicalDebt", "performance"}

SeedingStep ==
  /\ (phase # "serving" /\ resp' = Printed(SeedOk)) =>
       /\ store = {}
       /\ Cardinality(store') = Cardinality(DocumentedCategories)
       /\ {r.category : r \in store'} = DocumentedCategories
       /\ \A r \in store' : r.is_active = Some(TRUE)
  /\ (phase # "serving" /\ store # {}) =>
       /\ store' = store
       /\ pending' = <<>>
       /\ phase' \in {"startup", "serving"}

\* C5: seeding an empty store successfully leaves exactly the six documented
\* categories, all active; startup on a store holding a row changes nothing.
C5_Seeding == [][SeedingStep]_vars

\* C5 witness: seeding has succeeded and the six rows are stored.
C5_Witness ==
  /\ phase = "serving"
  /\ resp = Printed(SeedOk)
  /\ Cardinality(store) = Cardinality(DocumentedCategories)

SeedFailureStep ==
  (phase = "seeding" /\ resp' = Printed(SeedError)) =>
    /\ store' = store
    /\ store' = {}
    /\ phase' = "serving"

\* C6: while the defaults are being written nothing of them is in the table,
\* and an error at any point leaves the table as it was before seeding, and
\* the service serving.
C6_SeedingAllOrNothing ==
  [](phase = "seeding" => store = {}) /\ [][SeedFailureStep]_vars

\* C6 witness: seeding failed after some of the rows had been written (only
\* an INSERT advances the clock while the table is empty), the table is
\* empty and the service serves.
C6_Witness ==
  /\ phase = "serving"
  /\ resp = Printed(SeedError)
  /\ clock > 0
  /\ store = {}

\* C7: of two create calls for the same absent category that both pass the
\* existence check before either commits, one is answered 200 and the other
\* 400.  (Stated as the claim has it; violated by the code.)
C7_RaceLoserGetsConflict ==
  \A w, v \in Workers :
    ( /\ w # v
      /\ sess[w].pc = "done" /\ sess[v].pc = "done"
      /\ sess[w].passed /\ sess[v].passed
      /\ sess[w].prompt.category = sess[v].prompt.category )
    => /\ {sess[w].status, sess[v].status} = {200, 400}
       /\ Cardinality({r \in store : r.category = sess[w].prompt.category}) = 1

ByCategoryOps ==
  {"get_prompt_by_category", "update_prompt", "delete_prompt", "activate_prompt"}

NotFoundStep ==
  req'.op \in ByCategoryOps =>
    /\ (resp'.status = 404) <=> ~HasCategory(store, req'.category)
    /\ resp'.status = 404 => store' = store

\* C8: get, update, deactivate and activate answer 404 exactly when no
\* stored row, active or inactive, has the category, and a 404 leaves the
\* table unchanged.
C8_NotFound == [][NotFoundStep]_vars

\* C8 witness: a by-category call on a non-empty table was answered 404.
C8_Witness ==
  /\ req.op \in ByCategoryOps
  /\ resp.status = 404
  /\ store # {}

\* C9: a successful create without the active flag stores and returns a row
\* with a fresh id, is_active = true and created_at = updated_at.
\* (Stated as the claim has it; violated by the code.)
C9_CreateAsClaimed ==
  (req.op = "create_prompt" /\ resp.status = 200 /\ "is_active" \notin DOMAIN req.json)
  => /\ resp.body \in store
     /\ \A q \in store \ {resp.body} : q.id # resp.body.id
     /\ resp.body.is_active = Some(TRUE)
     /\ resp.body.created_at = resp.body.updated_at

\* C10: every stored row has a non-null title, prompt and is_active.
\* (Stated as the claim has it; violated by the code.)
C10_NoNullFields ==
  \A r \in store : r.title # Null /\ r.prompt # Null /\ r.is_active # Null

====
